---------------------------- MODULE Spec2Model ----------------------------
(***************************************************************************)
(* A model of rinexamine.py (RINEX File Examiner).                         *)
(*                                                                         *)
(* A text line is a record of exactly the views the code takes of it:      *)
(*   len     len(line)                                                     *)
(*   head    line[0:3] as a sequence of one-character strings              *)
(*   cols    the fixed columns of a v2.x epoch line, stripped:             *)
(*           <<line[4:6], line[7:9], line[10:12], line[13:15],             *)
(*             line[16:26]>>                                               *)
(*   content line[:60].strip().split()                                     *)
(*   label   line[60:].strip().split()                                     *)
(* Words of a line are separated by single blanks and no word crosses      *)
(* column 60, so that line.split() is content \o label and a Python        *)
(* substring test for a phrase is a test for a run of words.               *)
(***************************************************************************)
EXTENDS Integers, Sequences, FiniteSets, TLC

VARIABLES
    pc,                 \* position in select_file/process_rinex_file
    HATANAKA_AVAILABLE, \* module flag set at import time
    filepath,           \* argument of process_rinex_file
    fileSource,         \* what the file system / decoders yield for filepath
    file_label,         \* text of self.file_label
    results_text,       \* content of self.results_text
    messagebox,         \* title of the error dialog shown by the current call
    lines,              \* the list returned by decompress_file
    idx,                \* number of lines the header loop has consumed
    body_idx,           \* index of the last line the body loop has examined
    header_data,        \* dict built by parse_rinex_header
    header_end,         \* local of parse_observation_data
    in_epoch,           \* local of parse_observation_data
    first_epoch_time,   \* local of parse_observation_data
    last_epoch_time,    \* local of parse_observation_data
    epoch_count,        \* local of parse_observation_data
    obs_data,           \* dict built by parse_observation_data
    detected            \* last value returned by detect_file_type

vars == <<pc, HATANAKA_AVAILABLE, filepath, fileSource, file_label,
          results_text, messagebox, lines, idx, body_idx, header_data,
          header_end,
          in_epoch, first_epoch_time, last_epoch_time, epoch_count,
          obs_data, detected>>

-----------------------------------------------------------------------------
(* Characters and tokens *)

Digits == {"0", "1", "2", "3", "4", "5", "6", "7", "8", "9"}

LowerLetters == {"a", "b", "c", "d", "e", "f", "g", "h", "i", "j", "k", "l",
                 "m", "n", "o", "p", "q", "r", "s", "t", "u", "v", "w", "x",
                 "y", "z"}

UpperLetters == {"A", "B", "C", "D", "E", "F", "G", "H", "I", "J", "K", "L",
                 "M", "N", "O", "P", "Q", "R", "S", "T", "U", "V", "W", "X",
                 "Y", "Z"}

\* str.isalpha() of a one-character string
IsAlphaCh(c) == c \in LowerLetters \cup UpperLetters

\* str.isdigit() of a one-character string
IsDigitCh(c) == c \in Digits

DigitVal(c) ==
    CASE c = "0" -> 0 [] c = "1" -> 1 [] c = "2" -> 2 [] c = "3" -> 3
      [] c = "4" -> 4 [] c = "5" -> 5 [] c = "6" -> 6 [] c = "7" -> 7
      [] c = "8" -> 8 [] c = "9" -> 9

\* str.strip() of a sequence of characters
RECURSIVE LStrip(_)
LStrip(s) == IF s # <<>> /\ Head(s) = " " THEN LStrip(Tail(s)) ELSE s

RECURSIVE RStrip(_)
RStrip(s) ==
    IF s # <<>> /\ s[Len(s)] = " " THEN RStrip(SubSeq(s, 1, Len(s) - 1)) ELSE s

Strip(s) == RStrip(LStrip(s))

\* str.isdigit() of a sequence of characters
IsDigitSeq(s) == s # <<>> /\ \A k \in 1..Len(s) : IsDigitCh(s[k])

\* int() of a sequence of digits
RECURSIVE IntOfDigits(_)
IntOfDigits(s) ==
    IF s = <<>> THEN 0
    ELSE 10 * IntOfDigits(SubSeq(s, 1, Len(s) - 1)) + DigitVal(s[Len(s)])

\* The integer literals of the token vocabulary: int(tok) succeeds exactly on
\* these.
IntTokens ==
    [t \in {"0", "00", "01", "02", "03", "1", "2", "3", "12", "13", "14", "15",
            "23", "24", "28", "29", "30", "31", "59", "60", "05",
            "1999", "2023", "2024", "-1"} |->
        CASE t \in {"0", "00"} -> 0
          [] t \in {"01", "1"} -> 1
          [] t \in {"02", "2"} -> 2
          [] t \in {"03", "3"} -> 3
          [] t = "05" -> 5
          [] t = "12" -> 12 [] t = "13" -> 13 [] t = "14" -> 14
          [] t = "15" -> 15 [] t = "23" -> 23 [] t = "24" -> 24
          [] t = "28" -> 28 [] t = "29" -> 29 [] t = "30" -> 30
          [] t = "31" -> 31 [] t = "59" -> 59 [] t = "60" -> 60
          [] t = "1999" -> 1999 [] t = "2023" -> 2023 [] t = "2024" -> 2024
          [] t = "-1" -> 0 - 1]

\* The decimal literals of the vocabulary that are not integer literals, with
\* int(float(tok)): the value truncated toward zero.
DecimalTokens ==
    [t \in {"0.0000000", "1.0000000", "2.0000000", "30.0000000", "1.5000000",
            "59.9990000", "60.0000000", "0.5000000", "31.0000000",
            "1234567.1234", "-987654.4321", "4567890.0000", "1.000", "30.000"}
        |->
        CASE t \in {"0.0000000", "0.5000000"} -> 0
          [] t \in {"1.0000000", "1.5000000", "1.000"} -> 1
          [] t = "2.0000000" -> 2
          [] t \in {"30.0000000", "30.000"} -> 30
          [] t = "31.0000000" -> 31
          [] t = "59.9990000" -> 59
          [] t = "60.0000000" -> 60
          [] t = "1234567.1234" -> 1234567
          [] t = "-987654.4321" -> 0 - 987654
          [] t = "4567890.0000" -> 4567890]

\* The decimal numeral of a number below 60, as str() writes it
Numeral(n) == ToString(n)

IsNumeral(tok) == \E n \in 0..59 : Numeral(n) = tok

\* int(tok) does not raise ValueError
IsInt(tok) == tok \in DOMAIN IntTokens \/ IsNumeral(tok)

\* int(tok)
IntOf(tok) == IF tok \in DOMAIN IntTokens THEN IntTokens[tok]
              ELSE CHOOSE n \in 0..59 : Numeral(n) = tok

\* float(tok) does not raise ValueError
IsFloat(tok) == IsInt(tok) \/ tok \in DOMAIN DecimalTokens

\* int(float(tok))
TruncOf(tok) == IF IsInt(tok) THEN IntOf(tok) ELSE DecimalTokens[tok]

\* tok[0].isalpha() and len(tok) == 1
IsBareLetter(tok) == tok \in LowerLetters \cup UpperLetters

\* tok.isalpha() for the words of the vocabulary
IsAlphaWord(tok) ==
    tok \in LowerLetters \cup UpperLetters
            \cup {"NONE", "TRM", "LEIAR", "GEODETIC", "ABCD", "JOHN", "NGS"}

\* phrase in text, for sequences of words
ContainsWords(text, phrase) ==
    \E k \in 0..(Len(text) - Len(phrase)) :
        SubSeq(text, k + 1, k + Len(phrase)) = phrase

-----------------------------------------------------------------------------
(* datetime *)

IsLeap(y) == y % 4 = 0 /\ (y % 100 # 0 \/ y % 400 = 0)

DaysInMonth(y, m) ==
    CASE m \in {1, 3, 5, 7, 8, 10, 12} -> 31
      [] m \in {4, 6, 9, 11} -> 30
      [] m = 2 -> IF IsLeap(y) THEN 29 ELSE 28

RECURSIVE DaysBeforeMonth(_, _)
DaysBeforeMonth(y, m) ==
    IF m = 1 THEN 0 ELSE DaysBeforeMonth(y, m - 1) + DaysInMonth(y, m - 1)

DaysBeforeYear(y) ==
    (y - 1) * 365 + ((y - 1) \div 4) - ((y - 1) \div 100) + ((y - 1) \div 400)

\* datetime(year, month, day, hour, minute, second) does not raise ValueError
ValidDate(y, mo, d, h, mi, s) ==
    /\ y \in 1..9999
    /\ mo \in 1..12
    /\ d >= 1 /\ d <= DaysInMonth(y, mo)
    /\ h \in 0..23
    /\ mi \in 0..59
    /\ s \in 0..59

DateTime(y, mo, d, h, mi, s) ==
    [year |-> y, month |-> mo, day |-> d, hour |-> h, minute |-> mi,
     second |-> s]

\* Python's None for a datetime local
NoTime == DateTime(0, 0, 0, 0, 0, 0)

ToOrdinal(t) == DaysBeforeYear(t.year) + DaysBeforeMonth(t.year, t.month) + t.day

SecondOfDay(t) == t.hour * 3600 + t.minute * 60 + t.second

\* (t2 - t1).total_seconds(); whole seconds, as every datetime is built from
\* int(second)
TotalSeconds(t2, t1) ==
    (ToOrdinal(t2) - ToOrdinal(t1)) * 86400 + (SecondOfDay(t2) - SecondOfDay(t1))

\* t.strftime("%Y-%m-%d %H:%M:%S"): the six printed fields
Strftime(t) == <<t.year, t.month, t.day, t.hour, t.minute, t.second>>

\* Python's None for a formatted time
NoText == <<>>

-----------------------------------------------------------------------------
(* Lines *)

NoCols == <<"", "", "", "", "">>

\* A header line: content padded to 60 columns, then the label.
HeaderLine(head, content, label) ==
    [len |-> 80, head |-> head, cols |-> NoCols, content |-> content,
     label |-> label]

\* A line shorter than or equal to 60 columns: no label.
ShortLine(len, head, content) ==
    [len |-> len, head |-> head, cols |-> NoCols, content |-> content,
     label |-> <<>>]

\* "> YYYY MM DD HH MM SS.SSSSSSS  0 NN": a v3.x epoch line with these words
\* after the '>'.
EpochV3(fields) ==
    [len |-> 35, head |-> <<">", " ", " ">>, cols |-> NoCols,
     content |-> <<">">> \o fields, label |-> <<>>]

\* " YY MM DD HH MM SS.SSSSSSS  0 NN...": a v2.x epoch line. yy is line[1:3].
EpochV2(yy, mo, dd, hh, mi, ss) ==
    [len |-> 44, head |-> <<" ">> \o yy, cols |-> <<mo, dd, hh, mi, ss>>,
     content |-> <<>>, label |-> <<>>]

\* A satellite record of a v3.x epoch: the satellite id in columns 0-2, then
\* observation values.
SatLine(id) ==
    [len |-> 51, head |-> id, cols |-> NoCols, content |-> <<>>,
     label |-> <<>>]

EndOfHeaderWords == <<"END", "OF", "HEADER">>

\* line.split()
Split(line) == line.content \o line.label

\* line.startswith('>')
StartsWithGT(line) == line.head # <<>> /\ line.head[1] = ">"

\* "END OF HEADER" in label, with label = line[60:].strip()   (line 301)
LabelHas(line, phrase) == ContainsWords(line.label, phrase)

\* "END OF HEADER" in line   (line 464)
LineHasEndOfHeader(line) == ContainsWords(Split(line), EndOfHeaderWords)

-----------------------------------------------------------------------------
(* parse_rinex_header *)

\* The text 'Unknown'
Unknown == <<"Unknown">>

\* The text 'Not calculated'
NotCalculated == <<"Not", "calculated">>

\* An insertion-ordered dict is a sequence of [key, val] entries.
DictKeys(d) == {d[k].key : k \in 1..Len(d)}

DictGet(d, key) == d[CHOOSE k \in 1..Len(d) : d[k].key = key].val

\* d[key] = val: an existing key keeps its place
DictSet(d, key, val) ==
    IF key \in DictKeys(d)
    THEN [k \in 1..Len(d) |-> IF d[k].key = key THEN [key |-> key, val |-> val]
                              ELSE d[k]]
    ELSE Append(d, [key |-> key, val |-> val])

\* d[key].extend(more)
DictExtend(d, key, more) ==
    [k \in 1..Len(d) |-> IF d[k].key = key
                         THEN [key |-> key, val |-> d[k].val \o more]
                         ELSE d[k]]

\* The dict of lines 262-288; last_obs_system = "" stands for the absent key
\* '_last_obs_system'.
InitialHeaderData ==
    [version |-> Unknown, file_type |-> Unknown, satellite_system |-> Unknown,
     observation_types |-> <<>>, antenna_type |-> Unknown,
     antenna_height |-> Unknown, antenna_delta |-> Unknown,
     approx_position |-> Unknown, lat_lon_elev |-> NotCalculated,
     interval |-> Unknown, time_first_obs |-> Unknown,
     time_last_obs |-> Unknown, leap_seconds |-> Unknown,
     constellations_obs |-> {}, constellations_nav |-> {},
     marker_name |-> Unknown, marker_number |-> Unknown,
     marker_type |-> Unknown, observer |-> Unknown, agency |-> Unknown,
     receiver_number |-> Unknown, receiver_type |-> Unknown,
     receiver_version |-> Unknown, antenna_number |-> Unknown,
     last_obs_system |-> ""]

\* The list slice parts[from:] (from is a 0-based index)
SliceFrom(parts, from) == SubSeq(parts, from + 1, Len(parts))

\* The list slice parts[from:to]
Slice(parts, from, to) ==
    SubSeq(parts, from + 1, IF to < Len(parts) THEN to ELSE Len(parts))

\* The text f"Lat: {lat:.8f}, Lon: {lon:.8f}, Elev: {elev:.3f}m" of the
\* position xyz_to_latlon computes from three coordinates; the floating-point
\* iteration is not evaluated, the text is tagged with the coordinates it is
\* computed from.
GeodeticText(coords) == <<"Lat/Lon/Elev of">> \o coords

\* lines 307-314
VersionLine(data, parts) ==
    IF Len(parts) >= 2
    THEN [data EXCEPT !.version = <<parts[1]>>,
                      !.file_type = <<parts[2]>>,
                      !.satellite_system =
                          IF Len(parts) >= 3 THEN <<parts[3]>> ELSE @]
    ELSE data

\* lines 329-335
ObserverLine(data, parts) ==
    [data EXCEPT !.observer = IF Len(parts) >= 1 THEN <<parts[1]>> ELSE @,
                 !.agency = IF Len(parts) >= 2 THEN SliceFrom(parts, 1) ELSE @]

\* lines 338-346
ReceiverLine(data, parts) ==
    [data EXCEPT
        !.receiver_number = IF Len(parts) >= 1 THEN <<parts[1]>> ELSE @,
        !.receiver_type = IF Len(parts) >= 2 THEN <<parts[2]>> ELSE @,
        !.receiver_version = IF Len(parts) >= 3 THEN <<parts[3]>> ELSE @]

\* lines 349-358
AntennaTypeLine(data, parts) ==
    IF Len(parts) >= 1
    THEN IF Len(parts) >= 2 /\ ~IsAlphaWord(parts[1])
         THEN [data EXCEPT !.antenna_number = <<parts[1]>>,
                           !.antenna_type = SliceFrom(parts, 1)]
         ELSE [data EXCEPT !.antenna_type = parts]
    ELSE data

\* lines 361-366
AntennaDeltaLine(data, parts) ==
    [data EXCEPT
        !.antenna_height = IF Len(parts) >= 1 THEN <<parts[1]>> ELSE @,
        !.antenna_delta = IF Len(parts) >= 3
                          THEN <<"H:", parts[1], "E:", parts[2], "N:", parts[3]>>
                          ELSE @]

\* lines 369-378: the raw text is stored; float() of every word must succeed
\* and there must be exactly three for the position to be converted, any
\* exception is swallowed.
ApproxPositionLine(data, parts) ==
    [data EXCEPT
        !.approx_position = parts,
        !.lat_lon_elev =
            IF (\A k \in 1..Len(parts) : IsFloat(parts[k])) /\ Len(parts) = 3
            THEN GeodeticText(parts)
            ELSE @]

\* SysObsTypesLine with the system recorded before the count is converted
SysObsTypesLineEager(data, parts) ==
    IF Len(parts) >= 2
    THEN IF IsBareLetter(parts[1])
         THEN IF IsInt(parts[2])
              THEN [data EXCEPT
                       !.observation_types = DictSet(@, parts[1], SliceFrom(parts, 2)),
                       !.constellations_obs = @ \cup {parts[1]},
                       !.last_obs_system = parts[1]]
              ELSE [data EXCEPT !.constellations_obs = @ \cup {parts[1]}]
         ELSE IF data.last_obs_system \in DictKeys(data.observation_types)
              THEN [data EXCEPT
                       !.observation_types =
                           DictExtend(@, data.last_obs_system, parts)]
              ELSE data
    ELSE data

\* lines 397-419
SysObsTypesLine(data, parts) ==
    IF Len(parts) >= 2
    THEN IF IsBareLetter(parts[1])
         THEN IF IsInt(parts[2])
              THEN [data EXCEPT
                       !.observation_types = DictSet(@, parts[1], SliceFrom(parts, 2)),
                       !.constellations_obs = @ \cup {parts[1]},
                       !.last_obs_system = parts[1]]
              ELSE data
         ELSE IF data.last_obs_system # ""
              THEN IF data.last_obs_system \in DictKeys(data.observation_types)
                   THEN [data EXCEPT
                            !.observation_types =
                                DictExtend(@, data.last_obs_system, parts)]
                   ELSE data
              ELSE data
    ELSE data

\* lines 422-432
TypesOfObservLine(data, parts) ==
    IF Len(parts) >= 1
    THEN IF IsInt(parts[1])
         THEN [data EXCEPT
                  !.observation_types =
                      DictSet(@, "ALL", Slice(parts, 1, 1 + IntOf(parts[1])))]
         ELSE data
    ELSE data

\* The terminator looked for anywhere in the line, as the body scan does
IsHeaderTerminatorAnywhere(line) == LineHasEndOfHeader(line)

\* line 301
IsHeaderTerminator(line) == LabelHas(line, EndOfHeaderWords)

\* lines 293-294
IsSkippedHeaderLine(line) == line.len < 60

\* lines 304-432: the chain of label tests, first match wins
HeaderField(data, line) ==
    LET content == line.content
        Has(phrase) == LabelHas(line, phrase)
    IN  IF Has(<<"RINEX", "VERSION">>) THEN VersionLine(data, content)
        ELSE IF Has(<<"MARKER", "NAME">>)
            THEN [data EXCEPT !.marker_name = content]
        ELSE IF Has(<<"MARKER", "NUMBER">>)
            THEN [data EXCEPT !.marker_number = content]
        ELSE IF Has(<<"MARKER", "TYPE">>)
            THEN [data EXCEPT !.marker_type = content]
        ELSE IF Has(<<"OBSERVER", "/", "AGENCY">>)
            THEN ObserverLine(data, content)
        ELSE IF Has(<<"REC", "#", "/", "TYPE", "/", "VERS">>)
            THEN ReceiverLine(data, content)
        ELSE IF Has(<<"ANT", "#", "/", "TYPE">>) \/ Has(<<"ANTENNA", "TYPE">>)
            THEN AntennaTypeLine(data, content)
        ELSE IF Has(<<"ANTENNA:", "DELTA", "H/E/N">>)
                \/ Has(<<"ANTENNA", "DELTA">>)
            THEN AntennaDeltaLine(data, content)
        ELSE IF Has(<<"APPROX", "POSITION", "XYZ">>)
            THEN ApproxPositionLine(data, content)
        ELSE IF Has(<<"INTERVAL">>)
            THEN [data EXCEPT !.interval = content]
        ELSE IF Has(<<"TIME", "OF", "FIRST", "OBS">>)
            THEN [data EXCEPT !.time_first_obs = content]
        ELSE IF Has(<<"TIME", "OF", "LAST", "OBS">>)
            THEN [data EXCEPT !.time_last_obs = content]
        ELSE IF Has(<<"LEAP", "SECONDS">>)
            THEN [data EXCEPT !.leap_seconds = content]
        ELSE IF Has(<<"SYS", "/", "#", "/", "OBS", "TYPES">>)
            THEN SysObsTypesLine(data, content)
        ELSE IF Has(<<"TYPES", "OF", "OBSERV">>)
            THEN TypesOfObservLine(data, content)
        ELSE data

\* lines 435-436
DropLastObsSystem(data) == [data EXCEPT !.last_obs_system = ""]

-----------------------------------------------------------------------------
(* parse_observation_data *)

\* The cap on len(data['epoch_times']), lines 497 and 523
MaxEpochTimes == 100

\* The dict of lines 450-459; calculated_interval = <<>> stands for None and
\* interval_consistent = "absent" for the key not being set.
InitialObsData ==
    [constellations_in_data |-> {}, actual_start |-> NoText,
     actual_end |-> NoText, duration_seconds |-> 0, num_epochs |-> 0,
     calculated_interval |-> <<>>, interval_consistent |-> "absent",
     epoch_times |-> <<>>]

\* lines 462-466: 1 + the index of the first line containing the phrase, 0
\* when there is none
FindHeaderEnd(ls) ==
    IF \E k \in 1..Len(ls) : LineHasEndOfHeader(ls[k])
    THEN CHOOSE k \in 1..Len(ls) :
            /\ LineHasEndOfHeader(ls[k])
            /\ \A j \in 1..(k - 1) : ~LineHasEndOfHeader(ls[j])
    ELSE 0

\* lines 485-494: the try block reaches line 495 with an epoch_time
V3Parses(line) ==
    LET parts == Split(line)
    IN  /\ Len(parts) >= 7
        /\ \A k \in 2..6 : IsInt(parts[k])
        /\ IsFloat(parts[7])
        /\ ValidDate(IntOf(parts[2]), IntOf(parts[3]), IntOf(parts[4]),
                     IntOf(parts[5]), IntOf(parts[6]), TruncOf(parts[7]))

V3Time(line) ==
    LET parts == Split(line)
    IN  DateTime(IntOf(parts[2]), IntOf(parts[3]), IntOf(parts[4]),
                 IntOf(parts[5]), IntOf(parts[6]), TruncOf(parts[7]))

\* line 507
IsV2Candidate(line) ==
    /\ line.len > 29
    /\ line.head[1] = " "
    /\ IsDigitSeq(Strip(SubSeq(line.head, 2, 3)))

\* V2Year with the century turning at 70
V2YearPivot70(yy) == IF yy >= 70 THEN yy + 1900 ELSE yy + 2000

\* line 512
V2Year(yy) == IF yy >= 80 THEN yy + 1900 ELSE yy + 2000

\* lines 510-519: the try block reaches line 520 with an epoch_time
V2Parses(line) ==
    /\ \A k \in 1..4 : IsInt(line.cols[k])
    /\ IsFloat(line.cols[5])
    /\ ValidDate(V2Year(IntOfDigits(Strip(SubSeq(line.head, 2, 3)))),
                 IntOf(line.cols[1]), IntOf(line.cols[2]), IntOf(line.cols[3]),
                 IntOf(line.cols[4]), TruncOf(line.cols[5]))

V2Time(line) ==
    DateTime(V2Year(IntOfDigits(Strip(SubSeq(line.head, 2, 3)))),
             IntOf(line.cols[1]), IntOf(line.cols[2]), IntOf(line.cols[3]),
             IntOf(line.cols[4]), TruncOf(line.cols[5]))

\* StoreEpochTime as a ring: a full list drops its oldest entry
StoreEpochTimeRing(times, t) ==
    IF Len(times) < MaxEpochTimes THEN Append(times, t)
    ELSE Append(Tail(times), t)

\* lines 497-498 and 523-524
StoreEpochTime(times, t) ==
    IF Len(times) < MaxEpochTimes THEN Append(times, t) ELSE times

\* lines 538-539
IsSatelliteId(sat_id) == Len(sat_id) >= 2 /\ IsAlphaCh(sat_id[1])

\* The locals and the dict of the body loop, as one record
ScanState(ie, first, last, count, data) ==
    [in_epoch |-> ie, first_epoch_time |-> first, last_epoch_time |-> last,
     epoch_count |-> count, data |-> data]

\* lines 497-502 and 523-528
RecordEpoch(st, t) ==
    [st EXCEPT !.data.epoch_times = StoreEpochTime(@, t),
               !.first_epoch_time = IF @ = NoTime THEN t ELSE @,
               !.last_epoch_time = t]

\* lines 479-504
V3EpochLine(st, line) ==
    LET entered == [st EXCEPT !.in_epoch = TRUE, !.epoch_count = @ + 1]
    IN  IF V3Parses(line) THEN RecordEpoch(entered, V3Time(line)) ELSE entered

\* lines 507-531
V2EpochLine(st, line) ==
    IF V2Parses(line)
    THEN [RecordEpoch([st EXCEPT !.epoch_count = @ + 1], V2Time(line))
            EXCEPT !.in_epoch = TRUE]
    ELSE st

\* lines 536-541
SatelliteLine(st, line) ==
    LET sat_id == Strip(line.head)
    IN  IF IsSatelliteId(sat_id)
        THEN [st EXCEPT !.data.constellations_in_data = @ \cup {sat_id[1]}]
        ELSE st

\* BodyLine with the satellite branch open outside an epoch as well
BodyLineOutsideEpoch(st, line) ==
    IF StartsWithGT(line) THEN V3EpochLine(st, line)
    ELSE IF IsV2Candidate(line) THEN V2EpochLine(st, line)
    ELSE IF line.len > 3 THEN SatelliteLine(st, line)
    ELSE st

\* lines 474-541: one iteration of the body loop
BodyLine(st, line) ==
    IF StartsWithGT(line) THEN V3EpochLine(st, line)
    ELSE IF IsV2Candidate(line) THEN V2EpochLine(st, line)
    ELSE IF st.in_epoch /\ line.len > 3 THEN SatelliteLine(st, line)
    ELSE st

\* Duration with the end taken from the last captured timestamp
DurationOfCaptured(st) ==
    LET times == st.data.epoch_times
    IN  IF times # <<>>
        THEN [st.data EXCEPT
                !.actual_start = Strftime(times[1]),
                !.actual_end = Strftime(times[Len(times)]),
                !.duration_seconds = TotalSeconds(times[Len(times)], times[1]),
                !.num_epochs = st.epoch_count]
        ELSE st.data

\* lines 544-549
Duration(st) ==
    IF st.first_epoch_time # NoTime /\ st.last_epoch_time # NoTime
    THEN [st.data EXCEPT
            !.actual_start = Strftime(st.first_epoch_time),
            !.actual_end = Strftime(st.last_epoch_time),
            !.duration_seconds =
                TotalSeconds(st.last_epoch_time, st.first_epoch_time),
            !.num_epochs = st.epoch_count]
    ELSE st.data

-----------------------------------------------------------------------------
(* Interval statistics, lines 552-576 *)

\* lines 555-556: the deltas of consecutive captured epochs, in seconds
Deltas(times) ==
    [k \in 1..(Len(times) - 1) |-> TotalSeconds(times[k + 1], times[k])]

\* InWindow without the upper limit
InWindowNoUpperLimit(d) == 1 <= 1000 * d

\* line 559: 0.001 <= interval <= 3600, for a whole number of seconds
InWindow(d) == 1 <= 1000 * d /\ d <= 3600

\* lines 554-560: the retained deltas, in order
Retained(ds) == SelectSeq(ds, InWindow)

\* sum(intervals), adding the two halves of the list
RECURSIVE SeqSum(_)
SeqSum(ds) ==
    IF ds = <<>> THEN 0
    ELSE IF Len(ds) = 1 THEN ds[1]
    ELSE LET half == Len(ds) \div 2
         IN  SeqSum(SubSeq(ds, 1, half)) + SeqSum(SubSeq(ds, half + 1, Len(ds)))

SeqMin(ds) == CHOOSE d \in {ds[k] : k \in 1..Len(ds)} :
                \A k \in 1..Len(ds) : d <= ds[k]

SeqMax(ds) == CHOOSE d \in {ds[k] : k \in 1..Len(ds)} :
                \A k \in 1..Len(ds) : d >= ds[k]

\* f"{num/den:.3f}" as a number of thousandths: num/den rounded to three
\* decimals (a tie, which needs den to be a multiple of 16, goes to the even
\* neighbour)
Format3(num, den) ==
    LET q == (1000 * num) \div den
        r == (1000 * num) % den
    IN  IF 2 * r > den THEN q + 1
        ELSE IF 2 * r < den THEN q
        ELSE IF q % 2 = 0 THEN q ELSE q + 1

\* IsConsistent with a tolerance of 10% of the mean
IsConsistentTenPercent(min_interval, max_interval, total, n) ==
    10 * n * (max_interval - min_interval) < total

\* line 569: max_interval - min_interval < 0.01 * avg_interval with
\* avg_interval = total / n
IsConsistent(min_interval, max_interval, total, n) ==
    100 * n * (max_interval - min_interval) < total

\* lines 552-576
IntervalSummary(data) ==
    LET intervals == Retained(Deltas(data.epoch_times))
        n == Len(intervals)
        min_interval == SeqMin(intervals)
        max_interval == SeqMax(intervals)
        total == SeqSum(intervals)
    IN  IF Len(data.epoch_times) >= 2 /\ intervals # <<>>
        THEN IF IsConsistent(min_interval, max_interval, total, n)
             THEN [data EXCEPT
                     !.calculated_interval = <<Format3(total, n)>>,
                     !.interval_consistent = "True"]
             ELSE [data EXCEPT
                     !.calculated_interval =
                         <<Format3(total, n), Format3(min_interval, 1),
                           Format3(max_interval, 1)>>,
                     !.interval_consistent = "False"]
        ELSE data

-----------------------------------------------------------------------------
(* detect_file_type; a path is a sequence of one-character strings *)

Alphabet == <<"a", "b", "c", "d", "e", "f", "g", "h", "i", "j", "k", "l", "m",
              "n", "o", "p", "q", "r", "s", "t", "u", "v", "w", "x", "y", "z">>

Capitals == <<"A", "B", "C", "D", "E", "F", "G", "H", "I", "J", "K", "L", "M",
              "N", "O", "P", "Q", "R", "S", "T", "U", "V", "W", "X", "Y", "Z">>

\* str.lower() of one character
LowerCh(c) ==
    IF c \in UpperLetters
    THEN Alphabet[CHOOSE k \in 1..Len(Capitals) : Capitals[k] = c]
    ELSE c

\* str.lower()
Lower(s) == [k \in 1..Len(s) |-> LowerCh(s[k])]

\* s.endswith(suffix)
EndsWith(s, suffix) ==
    /\ Len(s) >= Len(suffix)
    /\ SubSeq(s, Len(s) - Len(suffix) + 1, Len(s)) = suffix

\* sub in s
Contains(s, sub) ==
    \E k \in 0..(Len(s) - Len(sub)) : SubSeq(s, k + 1, k + Len(sub)) = sub

\* The pattern \.\d{2}d followed by tail matches s[k+1 .. k+4+Len(tail)]
MatchesNNdAt(s, k, tail) ==
    /\ k >= 0
    /\ k + 4 + Len(tail) <= Len(s)
    /\ s[k + 1] = "."
    /\ IsDigitCh(s[k + 2])
    /\ IsDigitCh(s[k + 3])
    /\ s[k + 4] = "d"
    /\ SubSeq(s, k + 5, k + 4 + Len(tail)) = tail

\* re.search(r'\.\d{2}d' + tail + '$', s): '$' matches at the end of the
\* string and before a newline that ends it
SearchNNd(s, tail) ==
    \/ MatchesNNdAt(s, Len(s) - 4 - Len(tail), tail)
    \/ /\ s # <<>> /\ s[Len(s)] = "\n"
       /\ MatchesNNdAt(SubSeq(s, 1, Len(s) - 1), Len(s) - 5 - Len(tail), tail)

FileType(is_compressed, comp_type, needs_hatanaka) ==
    [is_compressed |-> is_compressed, comp_type |-> comp_type,
     needs_hatanaka |-> needs_hatanaka]

\* DetectFileType without the lower() of line 154
DetectFileTypeCaseSensitive(path) ==
    LET filename == path
    IN  IF EndsWith(filename, <<".", "c", "r", "x">>) \/ SearchNNd(filename, <<>>)
        THEN FileType(TRUE, "hatanaka", TRUE)
        ELSE IF EndsWith(filename, <<".", "g", "z">>)
        THEN IF Contains(filename, <<".", "c", "r", "x", ".", "g", "z">>)
                \/ SearchNNd(filename, <<".", "g", "z">>)
             THEN FileType(TRUE, "hatanaka+gz", TRUE)
             ELSE FileType(TRUE, "gzip", FALSE)
        ELSE IF EndsWith(filename, <<".", "z">>)
        THEN FileType(TRUE, "compress", TRUE)
        ELSE IF EndsWith(filename, <<".", "b", "z", "2">>)
        THEN FileType(TRUE, "bzip2", TRUE)
        ELSE IF EndsWith(filename, <<".", "z", "i", "p">>)
        THEN FileType(TRUE, "zip", TRUE)
        ELSE FileType(FALSE, "none", FALSE)

\* lines 149-175
DetectFileType(path) ==
    LET filename == Lower(path)
    IN  IF EndsWith(filename, <<".", "c", "r", "x">>) \/ SearchNNd(filename, <<>>)
        THEN FileType(TRUE, "hatanaka", TRUE)
        ELSE IF EndsWith(filename, <<".", "g", "z">>)
        THEN IF Contains(filename, <<".", "c", "r", "x", ".", "g", "z">>)
                \/ SearchNNd(filename, <<".", "g", "z">>)
             THEN FileType(TRUE, "hatanaka+gz", TRUE)
             ELSE FileType(TRUE, "gzip", FALSE)
        ELSE IF EndsWith(filename, <<".", "z">>)
        THEN FileType(TRUE, "compress", TRUE)
        ELSE IF EndsWith(filename, <<".", "b", "z", "2">>)
        THEN FileType(TRUE, "bzip2", TRUE)
        ELSE IF EndsWith(filename, <<".", "z", "i", "p">>)
        THEN FileType(TRUE, "zip", TRUE)
        ELSE FileType(FALSE, "none", FALSE)

\* os.path.basename(path)
RECURSIVE Basename(_)
Basename(path) ==
    IF \E k \in 1..Len(path) : path[k] = "/"
    THEN Basename(Tail(path))
    ELSE path

-----------------------------------------------------------------------------
(* display_results *)

\* The rank of a one-letter code in sorted(): capitals before small letters
CodeRank(c) ==
    IF c \in UpperLetters
    THEN CHOOSE k \in 1..Len(Capitals) : Capitals[k] = c
    ELSE 26 + (CHOOSE k \in 1..Len(Alphabet) : Alphabet[k] = c)

\* sorted(system_codes) for a set of one-letter codes
RECURSIVE SortedCodes(_)
SortedCodes(codes) ==
    IF codes = {} THEN <<>>
    ELSE LET least == CHOOSE c \in codes :
                        \A e \in codes : CodeRank(c) <= CodeRank(e)
         IN  <<least>> \o SortedCodes(codes \ {least})

\* lines 806-815: mapping.get(code, code)
ConstellationName(code) ==
    CASE code = "G" -> "GPS"
      [] code = "R" -> "GLONASS"
      [] code = "E" -> "Galileo"
      [] code = "C" -> "BeiDou"
      [] code = "J" -> "QZSS"
      [] code = "I" -> "IRNSS/NavIC"
      [] code = "S" -> "SBAS"
      [] code = "ALL" -> "All Systems"
      [] OTHER -> code

\* lines 801-816
GetConstellationNames(system_codes) ==
    LET sorted == SortedCodes(system_codes)
    IN  [k \in 1..Len(sorted) |-> ConstellationName(sorted[k])]

\* lines 818-833
GetSystemName(code) == IF code = "M" THEN "Mixed" ELSE ConstellationName(code)

\* float(text) of a one-word header interval, in thousandths; the words of
\* the vocabulary that float() accepts
IntervalTokens ==
    [t \in {"1.000", "30.000", "30", "15.000", "1.011", "0.000"} |->
        CASE t = "1.000" -> 1000
          [] t \in {"30.000", "30"} -> 30000
          [] t = "15.000" -> 15000
          [] t = "1.011" -> 1011
          [] t = "0.000" -> 0]

\* lines 705-714: the warning line is written.  header_float and calc_float
\* are compared exactly; where 100 * |header - calc| = header the doubles of
\* the code decide.
IntervalMismatch(header_interval, calculated_interval) ==
    /\ header_interval # Unknown
    /\ Len(header_interval) = 1
    /\ header_interval[1] \in DOMAIN IntervalTokens
    /\ LET header_milli == IntervalTokens[header_interval[1]]
           calc_milli == calculated_interval[1]
           diff == IF header_milli >= calc_milli
                   THEN header_milli - calc_milli
                   ELSE calc_milli - header_milli
       IN  100 * diff > header_milli

\* lines 629-799: the text written to the panel, as a record of its parts in
\* the order they are written
Report(data, obs, path, hatanaka) ==
    LET type == DetectFileType(path)
        types == data.observation_types
    IN  [file |-> Basename(path),
         compression |-> IF type.is_compressed THEN type.comp_type ELSE "",
         marker_name |-> data.marker_name,
         marker_number |-> data.marker_number,
         marker_type |-> data.marker_type,
         observer |-> data.observer,
         agency |-> data.agency,
         receiver |-> <<data.receiver_type, data.receiver_version,
                        data.receiver_number>>,
         antenna_number |-> data.antenna_number,
         no_metadata |-> /\ data.marker_name = Unknown
                         /\ data.marker_number = Unknown
                         /\ data.observer = Unknown
                         /\ data.receiver_type = Unknown,
         version |-> <<data.version, data.file_type>>,
         defined_for |-> GetConstellationNames(data.constellations_obs),
         observed |-> GetConstellationNames(obs.constellations_in_data),
         header_interval |-> data.interval,
         calculated_interval |-> obs.calculated_interval,
         mismatch_warning |->
             /\ obs.calculated_interval # <<>>
             /\ IntervalMismatch(data.interval, obs.calculated_interval),
         inconsistent_note |->
             /\ obs.calculated_interval # <<>>
             /\ obs.interval_consistent = "False",
         no_interval_note |->
             /\ obs.calculated_interval = <<>>
             /\ data.interval = Unknown,
         start |-> obs.actual_start,
         end |-> obs.actual_end,
         duration |-> IF obs.actual_start # NoText
                      THEN obs.duration_seconds ELSE 0,
         epochs |-> IF obs.actual_start # NoText THEN obs.num_epochs ELSE 0,
         from_header |-> IF obs.actual_start # NoText THEN <<>>
                         ELSE <<data.time_first_obs, data.time_last_obs>>,
         antenna |-> <<data.antenna_type, data.antenna_height,
                       data.antenna_delta>>,
         position |-> <<data.approx_position, data.lat_lon_elev>>,
         total_epochs |-> obs.num_epochs,
         systems |-> GetConstellationNames(obs.constellations_in_data),
         observation_types |->
             [k \in 1..Len(types) |->
                 [key |-> GetSystemName(types[k].key), val |-> types[k].val]],
         satellite_system |-> data.satellite_system,
         leap_seconds |-> data.leap_seconds,
         hatanaka |-> hatanaka]

-----------------------------------------------------------------------------
(* The steps of select_file -> process_rinex_file *)

EmptyPanel == [kind |-> "empty"]

ReportPanel(report) == [kind |-> "report", body |-> report]

\* lines 250-251
ErrorPanel(path) == [kind |-> "error", about |-> path]

NoFileType == FileType(FALSE, "", FALSE)

\* What the file system and the decoders yield for a path: an exception, or
\* the lines of the (decompressed) file
Source(raises, ls) == [raises |-> raises, lines |-> ls]

NoSource == Source(FALSE, <<>>)

\* The locals of parse_observation_data before line 462 has run
ScanReset ==
    /\ header_end' = 0
    /\ body_idx' = 0
    /\ in_epoch' = FALSE
    /\ first_epoch_time' = NoTime
    /\ last_epoch_time' = NoTime
    /\ epoch_count' = 0
    /\ obs_data' = InitialObsData

ScanUnchanged ==
    UNCHANGED <<header_end, body_idx, in_epoch, first_epoch_time,
                last_epoch_time, epoch_count, obs_data>>

GuiUnchanged ==
    UNCHANGED <<HATANAKA_AVAILABLE, filepath, fileSource, file_label,
                results_text, messagebox, detected>>

\* lines 128-147: the user picks a file; the file system and the decoders
\* will yield `source` for it
SelectFile(path, source) ==
    /\ pc = "idle"
    /\ filepath' = path
    /\ fileSource' = source
    /\ file_label' = Basename(path)
    /\ messagebox' = "none"
    /\ pc' = "decompress"
    /\ lines' = <<>>
    /\ idx' = 0
    /\ header_data' = InitialHeaderData
    /\ ScanReset
    /\ UNCHANGED <<HATANAKA_AVAILABLE, results_text, detected>>

\* DecompressFails without the return of line 235: the parse goes on with no
\* lines
DecompressFailsAndParses(title) ==
    /\ messagebox' = title
    /\ pc' = "header"
    /\ UNCHANGED <<lines, results_text, header_data>>

\* decompress_file returns None after showing a dialog (lines 194-201,
\* 209-211, 218-220), and process_rinex_file returns (lines 233-235)
DecompressFails(title) ==
    /\ messagebox' = title
    /\ pc' = "idle"
    /\ UNCHANGED <<lines, results_text, header_data>>

\* open() or a decoder raises out of decompress_file: lines 247-251
ReadFails ==
    /\ messagebox' = "Error"
    /\ results_text' = ErrorPanel(filepath)
    /\ pc' = "idle"
    /\ UNCHANGED <<lines, header_data>>

\* decompress_file returns the lines; parse_rinex_header starts (line 238,
\* lines 262-288)
DecompressReturns ==
    /\ lines' = fileSource.lines
    /\ header_data' = InitialHeaderData
    /\ pc' = "header"
    /\ UNCHANGED <<messagebox, results_text>>

\* lines 177-220 and 229-238
DecompressFile ==
    /\ pc = "decompress"
    /\ detected' = DetectFileType(filepath)
    /\ IF ~detected'.is_compressed
       THEN IF fileSource.raises THEN ReadFails ELSE DecompressReturns
       ELSE IF detected'.needs_hatanaka
       THEN IF ~HATANAKA_AVAILABLE THEN DecompressFails("Missing Library")
            ELSE IF fileSource.raises
                 THEN DecompressFails("Decompression Error")
                 ELSE DecompressReturns
       ELSE IF fileSource.raises THEN DecompressFails("Decompression Error")
            ELSE DecompressReturns
    /\ idx' = 0
    /\ ScanUnchanged
    /\ UNCHANGED <<HATANAKA_AVAILABLE, filepath, fileSource, file_label>>

\* lines 291-432: one iteration of the header loop that does not break
HeaderLoop ==
    /\ pc = "header"
    /\ idx < Len(lines)
    /\ ~(~IsSkippedHeaderLine(lines[idx + 1])
            /\ IsHeaderTerminator(lines[idx + 1]))
    /\ header_data' = IF IsSkippedHeaderLine(lines[idx + 1]) THEN header_data
                      ELSE HeaderField(header_data, lines[idx + 1])
    /\ idx' = idx + 1
    /\ UNCHANGED <<pc, lines>>
    /\ ScanUnchanged
    /\ GuiUnchanged

\* lines 301-302 and 435-438, then lines 450-472: the header loop breaks at
\* the terminator or runs out of lines, parse_rinex_header returns and
\* parse_observation_data finds its header end.  idx keeps the number of lines
\* the header loop consumed.
HeaderReturns ==
    /\ pc = "header"
    /\ idx < Len(lines) =>
          ~IsSkippedHeaderLine(lines[idx + 1]) /\ IsHeaderTerminator(lines[idx + 1])
    /\ idx' = IF idx < Len(lines) THEN idx + 1 ELSE idx
    /\ header_data' = DropLastObsSystem(header_data)
    /\ header_end' = FindHeaderEnd(lines)
    /\ body_idx' = header_end'
    /\ in_epoch' = FALSE
    /\ first_epoch_time' = NoTime
    /\ last_epoch_time' = NoTime
    /\ epoch_count' = 0
    /\ obs_data' = InitialObsData
    /\ pc' = "body"
    /\ UNCHANGED lines
    /\ GuiUnchanged

\* lines 474-541: one iteration of the body loop
BodyLoop ==
    /\ pc = "body"
    /\ body_idx < Len(lines)
    /\ LET st == BodyLine(ScanState(in_epoch, first_epoch_time,
                                    last_epoch_time, epoch_count, obs_data),
                          lines[body_idx + 1])
       IN  /\ in_epoch' = st.in_epoch
           /\ first_epoch_time' = st.first_epoch_time
           /\ last_epoch_time' = st.last_epoch_time
           /\ epoch_count' = st.epoch_count
           /\ obs_data' = st.data
    /\ body_idx' = body_idx + 1
    /\ UNCHANGED <<pc, lines, idx, header_data, header_end>>
    /\ GuiUnchanged

\* lines 543-578: the body loop has run out of lines; the duration and the
\* interval statistics are computed and parse_observation_data returns
BodyReturns ==
    /\ pc = "body"
    /\ body_idx = Len(lines)
    /\ obs_data' =
          IntervalSummary(Duration(ScanState(in_epoch, first_epoch_time,
                                             last_epoch_time, epoch_count,
                                             obs_data)))
    /\ pc' = "display"
    /\ UNCHANGED <<lines, idx, body_idx, header_data, header_end, in_epoch,
                   first_epoch_time, last_epoch_time, epoch_count>>
    /\ GuiUnchanged

\* DisplayResults without the delete of line 627: the report is inserted
\* after whatever the panel held
DisplayResultsWithoutClear ==
    /\ pc = "display"
    /\ results_text' =
          IF results_text = EmptyPanel
          THEN ReportPanel(Report(header_data, obs_data, filepath,
                                  HATANAKA_AVAILABLE))
          ELSE [kind |-> "report",
                body |-> Report(header_data, obs_data, filepath,
                                HATANAKA_AVAILABLE),
                after |-> results_text.kind]
    /\ pc' = "idle"
    /\ UNCHANGED <<HATANAKA_AVAILABLE, filepath, fileSource, file_label,
                   messagebox, detected, lines, idx, header_data>>
    /\ ScanUnchanged

\* lines 242-245 and 617-799
DisplayResults ==
    /\ pc = "display"
    /\ results_text' =
          ReportPanel(Report(header_data, obs_data, filepath,
                             HATANAKA_AVAILABLE))
    /\ pc' = "idle"
    /\ UNCHANGED <<HATANAKA_AVAILABLE, filepath, fileSource, file_label,
                   messagebox, detected, lines, idx, header_data>>
    /\ ScanUnchanged

\* The parsing steps shared by every specification
Parse == HeaderLoop \/ HeaderReturns \/ BodyLoop \/ BodyReturns

\* The state in which parse_rinex_header(ls) has just been entered
ParseInit(ls) ==
    /\ pc = "header"
    /\ HATANAKA_AVAILABLE = TRUE
    /\ filepath = <<>>
    /\ fileSource = NoSource
    /\ file_label = <<>>
    /\ results_text = EmptyPanel
    /\ messagebox = "none"
    /\ detected = NoFileType
    /\ lines = ls
    /\ idx = 0
    /\ body_idx = 0
    /\ header_data = InitialHeaderData
    /\ header_end = 0
    /\ in_epoch = FALSE
    /\ first_epoch_time = NoTime
    /\ last_epoch_time = NoTime
    /\ epoch_count = 0
    /\ obs_data = InitialObsData

\* All sequences over S of length at most n
SeqsUpTo(S, n) == UNION {[1..k -> S] : k \in 0..n}

-----------------------------------------------------------------------------
(* Input lines *)

Blank3 == <<" ", " ", " ">>

\* "                                                            END OF HEADER"
EndOfHeaderLine == HeaderLine(Blank3, <<>>, EndOfHeaderWords)

\* "ABCD                                                        MARKER NAME"
MarkerNameLine == HeaderLine(<<"A", "B", "C">>, <<"ABCD">>, <<"MARKER", "NAME">>)

\* "> 2024 01 01 hh mm ss  0  4"
GoodV3(hh, mm, ss) ==
    EpochV3(<<"2024", "01", "01", hh, mm, ss, "0", "4">>)

\* A '>' line with fewer than 7 words
ShortV3 == EpochV3(<<"2024", "01", "01">>)

\* A '>' line with a non-numeric month
NonNumericV3 ==
    EpochV3(<<"2024", "xx", "01", "00", "00", "0.0000000", "0", "4">>)

\* A '>' line with month 13
BadDateV3 == EpochV3(<<"2024", "13", "01", "00", "00", "0.0000000", "0", "4">>)

\* " 24  1  1  0  0 30.0000000  0  4G01G02G03G04"
GoodV2 == EpochV2(<<"2", "4">>, "1", "1", "0", "0", "30.0000000")

\* A v2.x epoch line with day 31 in February
BadDateV2 == EpochV2(<<"2", "4">>, "2", "31", "0", "0", "0.0000000")

\* " 1        2     (a line of data values starting with a digit in column 2)
NonNumericV2 == EpochV2(<<" ", "1">>, "", "2", "", "", "xx")

\* A line of two characters
TwoCharLine == ShortLine(2, <<"G", "1">>, <<"G1">>)

\* A line of observation values only: blank in columns 0-2
ValuesLine == SatLine(Blank3)

-----------------------------------------------------------------------------
(* Body scanning: the lines after a well-formed header terminator *)

MaxBodyLines == 3

BodyAlphabet ==
    {GoodV3("00", "00", "0.0000000"), GoodV3("00", "00", "30.0000000"),
     ShortV3, NonNumericV3, BadDateV3, GoodV2, BadDateV2, NonNumericV2,
     SatLine(<<"G", "0", "1">>), SatLine(<<"R", "0", "2">>), TwoCharLine,
     ValuesLine}

\* The headers the body files start with
Headers == {<<EndOfHeaderLine>>, <<MarkerNameLine, EndOfHeaderLine>>}

BodyFiles == {header \o body :
                header \in Headers, body \in SeqsUpTo(BodyAlphabet, MaxBodyLines)}

InitBody == \E ls \in BodyFiles : ParseInit(ls)

NextParse == Parse

SpecBody == InitBody /\ [][NextParse]_vars

\* The indices of the body lines the loop of line 474 has examined so far
Examined == (header_end + 1)..body_idx

\* The examined lines that are epoch headers whose date and time parse
ParsedV3(k) == StartsWithGT(lines[k]) /\ V3Parses(lines[k])

ParsedV2(k) ==
    ~StartsWithGT(lines[k]) /\ IsV2Candidate(lines[k]) /\ V2Parses(lines[k])

ParsedEpochs == {k \in Examined : ParsedV3(k) \/ ParsedV2(k)}

\* C1: when parse_observation_data has returned for a body without v2.x epoch
\* lines, num_epochs is the number of '>' lines whose date and time parsed; a
\* '>' line whose parse failed is not counted.
C1_EpochCountIsParsedLines ==
    (pc = "display" /\ \A k \in Examined : ~IsV2Candidate(lines[k]))
        => obs_data.num_epochs = Cardinality({k \in Examined : ParsedV3(k)})

\* C7: as long as no epoch header has parsed, no constellation code has been
\* recorded, whatever malformed epoch lines and satellite lines were examined.
C7_NoCodeBeforeParsedEpoch ==
    (pc = "body" /\ ParsedEpochs = {})
        => obs_data.constellations_in_data = {}

\* The line is an epoch header line of either version
IsEpochHeaderLine(line) == StartsWithGT(line) \/ IsV2Candidate(line)

\* C14: a step of the body loop adds a constellation letter only when the
\* scanner is in-epoch and the line is longer than 3 columns, is not an epoch
\* header line, and has in its first 3 columns, trimmed, at least 2
\* characters of which the first is a letter; that letter is what is added,
\* and nothing is ever removed.  As long as no epoch header line has been
\* examined, no constellation code has been recorded.
C14_OnlySatelliteLinesInEpochAddCodes ==
    [][pc = "body" /\ body_idx < Len(lines)
         => LET line == lines[body_idx + 1]
                sat_id == Strip(line.head)
                before == obs_data.constellations_in_data
                after == obs_data'.constellations_in_data
            IN  /\ before \subseteq after
                /\ after # before
                     => /\ in_epoch
                        /\ line.len > 3
                        /\ ~IsEpochHeaderLine(line)
                        /\ Len(sat_id) >= 2
                        /\ sat_id[1] \in LowerLetters \cup UpperLetters
                        /\ after = before \cup {sat_id[1]}
                /\ (\A k \in Examined : ~IsEpochHeaderLine(lines[k]))
                     => before = {}]_vars

\* C14 witness: after an epoch header, a GPS and then a GLONASS satellite
\* line have each added their letter
C14_Witness ==
    /\ pc = "body"
    /\ body_idx = header_end + 3
    /\ IsEpochHeaderLine(lines[header_end + 1])
    /\ lines[header_end + 2] = SatLine(<<"G", "0", "1">>)
    /\ lines[header_end + 3] = SatLine(<<"R", "0", "2">>)
    /\ obs_data.constellations_in_data = {"G", "R"}

-----------------------------------------------------------------------------
(* Where the header ends: files with and without terminator lines *)

MaxTerminatorLines == 3

\* "END OF HEADER" with its leading blanks trimmed away: 13 characters
TrimmedEndOfHeader == ShortLine(13, <<"E", "N", "D">>, EndOfHeaderWords)

\* "see END OF HEADER ...                                       COMMENT"
CommentOnEndOfHeader ==
    HeaderLine(<<"s", "e", "e">>, <<"see">> \o EndOfHeaderWords, <<"COMMENT">>)

\* A line of exactly 60 characters whose columns hold "END OF HEADER"
SixtyColumnEndOfHeader == ShortLine(60, <<"E", "N", "D">>, EndOfHeaderWords)

\* A line of exactly 59 characters whose columns hold "END OF HEADER"
FiftyNineColumnEndOfHeader == ShortLine(59, <<"E", "N", "D">>, EndOfHeaderWords)

TerminatorAlphabet ==
    {EndOfHeaderLine, TrimmedEndOfHeader, CommentOnEndOfHeader,
     SixtyColumnEndOfHeader, FiftyNineColumnEndOfHeader, MarkerNameLine,
     GoodV3("00", "00", "0.0000000"), SatLine(<<"G", "0", "1">>)}

TerminatorFiles == SeqsUpTo(TerminatorAlphabet, MaxTerminatorLines)

InitTerminator == \E ls \in TerminatorFiles : ParseInit(ls)

SpecTerminator == InitTerminator /\ [][NextParse]_vars

\* C2: once parse_rinex_header has returned, the body loop starts right after
\* the last line the header loop consumed: both stop at the same terminator
\* line, and no line the header loop consumed is examined as a body line.
C2_BodyStartsWhereHeaderStopped ==
    pc \in {"body", "display"} => header_end = idx

\* C11: the header loop ignores a line of fewer than 60 characters whatever
\* its text (no field changes, the loop goes on to the next line), and goes on
\* past a line of exactly 60 characters even when its columns hold
\* "END OF HEADER".
C11_ShortLinesDoNotStopHeader ==
    [][pc = "header" /\ idx < Len(lines)
         => /\ lines[idx + 1].len < 60
                => header_data' = header_data /\ pc' = "header" /\ idx' = idx + 1
            /\ lines[idx + 1].len = 60
                => pc' = "header" /\ idx' = idx + 1]_vars

\* C11 witness: the header loop has gone past a 59-character and a
\* 60-character line that both hold "END OF HEADER"
C11_Witness ==
    /\ pc = "header"
    /\ idx = 2
    /\ Len(lines) = 3
    /\ lines[1] = FiftyNineColumnEndOfHeader
    /\ lines[2] = SixtyColumnEndOfHeader
    /\ header_data = InitialHeaderData

-----------------------------------------------------------------------------
(* Header parsing: observation-type blocks, positions, malformed lines *)

MaxHeaderLines == 3

SysObsTypes == <<"SYS", "/", "#", "/", "OBS", "TYPES">>

TypesOfObserv == <<"#", "/", "TYPES", "OF", "OBSERV">>

ApproxPositionXYZ == <<"APPROX", "POSITION", "XYZ">>

Thirteen == <<"C1C", "L1C", "D1C", "S1C", "C1W", "S1W", "C2W", "L2W", "D2W",
              "S2W", "C2L", "L2L", "D2L">>

\* "G   15 C1C L1C ... D2L                                      SYS / # / OBS TYPES"
SysG15 == HeaderLine(<<"G", " ", " ">>, <<"G", "15">> \o Thirteen, SysObsTypes)

\* "       S2L C5Q                                              SYS / # / OBS TYPES"
ContinuationOfTwo == HeaderLine(Blank3, <<"S2L", "C5Q">>, SysObsTypes)

\* "       L5Q                                                  SYS / # / OBS TYPES"
ContinuationOfOne == HeaderLine(Blank3, <<"L5Q">>, SysObsTypes)

SysR2 == HeaderLine(<<"R", " ", " ">>, <<"R", "2", "C1C", "L1C">>, SysObsTypes)

\* A new-system line whose count is not a number
SysBadCount ==
    HeaderLine(<<"E", " ", " ">>, <<"E", "xx", "C1C", "L1C">>, SysObsTypes)

\* "     2    C1    L1                                          # / TYPES OF OBSERV"
V2Types == HeaderLine(Blank3, <<"2", "C1", "L1">>, TypesOfObserv)

V2TypesBadCount == HeaderLine(Blank3, <<"xx", "C1", "L1">>, TypesOfObserv)

ApproxGood ==
    HeaderLine(<<" ", " ", "1">>,
               <<"1234567.1234", "-987654.4321", "4567890.0000">>,
               ApproxPositionXYZ)

ApproxNonNumeric ==
    HeaderLine(<<" ", " ", "1">>, <<"1234567.1234", "xx", "4567890.0000">>,
               ApproxPositionXYZ)

ApproxTwoValues ==
    HeaderLine(<<" ", " ", "1">>, <<"1234567.1234", "-987654.4321">>,
               ApproxPositionXYZ)

\* "    30.000                                                  INTERVAL"
IntervalLine == HeaderLine(Blank3, <<"30.000">>, <<"INTERVAL">>)

HeaderAlphabet ==
    {SysG15, ContinuationOfTwo, ContinuationOfOne, SysR2, SysBadCount,
     V2Types, V2TypesBadCount, ApproxGood, ApproxNonNumeric, ApproxTwoValues,
     IntervalLine, EndOfHeaderLine}

HeaderFiles == SeqsUpTo(HeaderAlphabet, MaxHeaderLines)

InitHeader == \E ls \in HeaderFiles : ParseInit(ls)

SpecHeader == InitHeader /\ [][NextParse]_vars

\* A "SYS / # / OBS TYPES" line that starts a system: a bare letter, a count
IsNewSystemLine(line) ==
    /\ line.len >= 60
    /\ LabelHas(line, SysObsTypes)
    /\ Len(line.content) >= 2
    /\ IsBareLetter(line.content[1])
    /\ IsInt(line.content[2])

\* A "SYS / # / OBS TYPES" line of one or more words that does not start a
\* system
IsContinuationLine(line) ==
    /\ line.len >= 60
    /\ LabelHas(line, SysObsTypes)
    /\ Len(line.content) >= 1
    /\ ~IsBareLetter(line.content[1])

\* The words of lines[from..to], in order
RECURSIVE WordsOf(_, _, _)
WordsOf(ls, from, to) ==
    IF from > to THEN <<>>
    ELSE ls[from].content \o WordsOf(ls, from + 1, to)

\* The header read so far is one block: a new-system line, then one or more
\* continuation lines
IsOneBlock ==
    /\ idx >= 2
    /\ IsNewSystemLine(lines[1])
    /\ \A k \in 2..idx : IsContinuationLine(lines[k])

\* C3: after a new-system line and any continuation lines of one or more
\* words, the list under the system's key is the type codes of the first line
\* followed by every word of every continuation line, in order.
C3_BlockListIsAllWords ==
    (pc = "header" /\ IsOneBlock)
        => /\ lines[1].content[1] \in DictKeys(header_data.observation_types)
           /\ DictGet(header_data.observation_types, lines[1].content[1])
                = SliceFrom(lines[1].content, 2) \o WordsOf(lines, 2, idx)

\* A header line whose local parse fails: a non-numeric count, or a position
\* that is not three numbers
FailsLocalParse(line) ==
    /\ line.len >= 60
    /\ ~LabelHas(line, EndOfHeaderWords)
    /\ \/ /\ LabelHas(line, SysObsTypes)
          /\ Len(line.content) >= 2
          /\ IsBareLetter(line.content[1])
          /\ ~IsInt(line.content[2])
       \/ /\ LabelHas(line, TypesOfObserv)
          /\ Len(line.content) >= 1
          /\ ~IsInt(line.content[1])
       \/ /\ LabelHas(line, ApproxPositionXYZ)
          /\ \/ Len(line.content) # 3
             \/ \E k \in 1..Len(line.content) : ~IsFloat(line.content[k])

\* C10: a header line whose local parse fails does not end the header loop,
\* which goes on to the next line, and leaves the observation types, the
\* declared systems and the geodetic position as they were.
C10_FailedLineIsSkipped ==
    [][(pc = "header" /\ idx < Len(lines) /\ FailsLocalParse(lines[idx + 1]))
        => /\ pc' = "header"
           /\ idx' = idx + 1
           /\ header_data'.observation_types = header_data.observation_types
           /\ header_data'.constellations_obs = header_data.constellations_obs
           /\ header_data'.lat_lon_elev = header_data.lat_lon_elev]_vars

\* C10 witness: the header loop has returned after three lines, the first of
\* which failed its parse and the second of which was still taken in.
C10_Witness ==
    /\ pc = "body"
    /\ idx = 3
    /\ FailsLocalParse(lines[1])
    /\ lines[2] = IntervalLine
    /\ header_data.interval = <<"30.000">>
    /\ header_data.lat_lon_elev = NotCalculated
    /\ header_data.constellations_obs = {}

\* C16: once parse_rinex_header has returned, the declared-system set is the
\* key set of the observation-types mapping, whether the types came from
\* "SYS / # / OBS TYPES" lines or from a "# / TYPES OF OBSERV" line (key ALL).
C16_DeclaredSystemsAreTypeKeys ==
    pc \in {"body", "display"}
        => header_data.constellations_obs = DictKeys(header_data.observation_types)

-----------------------------------------------------------------------------
(* File names and detect_file_type *)

MaxNameParts == 3

\* The pieces file names are put together from
NameParts ==
    {<<"s", "i", "t", "e">>, <<".", "c", "r", "x">>, <<".", "C", "R", "X">>,
     <<".", "2", "4", "d">>, <<".", "9", "9", "D">>, <<".", "g", "z">>,
     <<".", "G", "z">>, <<".", "Z">>, <<".", "b", "z", "2">>,
     <<".", "Z", "I", "P">>, <<".", "r", "n", "x">>, <<".", "2", "4", "o">>,
     <<".", "2", "d">>}

RECURSIVE Flatten(_)
Flatten(parts) ==
    IF parts = <<>> THEN <<>> ELSE Head(parts) \o Flatten(Tail(parts))

\* File names (without newline characters) of at most MaxNameParts pieces
FileNames == {Flatten(parts) : parts \in SeqsUpTo(NameParts, MaxNameParts)}

\* A call detect_file_type(filepath)
Classify ==
    /\ pc = "classify"
    /\ detected' = DetectFileType(filepath)
    /\ pc' = "classified"
    /\ UNCHANGED <<HATANAKA_AVAILABLE, filepath, fileSource, file_label,
                   results_text, messagebox, lines, idx, header_data>>
    /\ ScanUnchanged

InitClassify ==
    /\ pc = "classify"
    /\ filepath \in FileNames
    /\ HATANAKA_AVAILABLE = TRUE
    /\ fileSource = NoSource
    /\ file_label = <<>>
    /\ results_text = EmptyPanel
    /\ messagebox = "none"
    /\ detected = NoFileType
    /\ lines = <<>>
    /\ idx = 0
    /\ body_idx = 0
    /\ header_data = InitialHeaderData
    /\ header_end = 0
    /\ in_epoch = FALSE
    /\ first_epoch_time = NoTime
    /\ last_epoch_time = NoTime
    /\ epoch_count = 0
    /\ obs_data = InitialObsData

NextClassify == Classify

SpecClassify == InitClassify /\ [][NextClassify]_vars

Site24o == <<"s", "i", "t", "e", ".", "2", "4", "o">>

Site24d == <<"s", "i", "t", "e", ".", "2", "4", "d">>

SiteCrxGz == <<"s", "i", "t", "e", ".", "c", "r", "x", ".", "g", "z">>

SiteRnxGz == <<"s", "i", "t", "e", ".", "r", "n", "x", ".", "g", "z">>

SiteZ == <<"s", "i", "t", "e", ".", "Z">>

\* The name with every capital replaced by its small letter
Folded(name) ==
    [k \in 1..Len(name) |->
        IF \E j \in 1..26 : Capitals[j] = name[k]
        THEN Alphabet[CHOOSE j \in 1..26 : Capitals[j] = name[k]]
        ELSE name[k]]

\* name ends in suffix
HasSuffix(name, suffix) ==
    \E k \in 0..Len(name) :
        /\ Len(name) - k = Len(suffix)
        /\ \A j \in 1..Len(suffix) : name[k + j] = suffix[j]

\* name ends in a dot, two digits, a d and then suffix
HasSuffixNNd(name, suffix) ==
    \E a \in Digits, b \in Digits : HasSuffix(name, <<".", a, b, "d">> \o suffix)

\* suffix occurs somewhere in name
HasInside(name, suffix) ==
    \E k \in 1..Len(name) : HasSuffix(SubSeq(name, 1, k), suffix)

\* The rules of the classification, first match first
Classification(name) ==
    LET n == Folded(name)
    IN  CASE HasSuffix(n, <<".", "c", "r", "x">>) \/ HasSuffixNNd(n, <<>>)
                -> <<TRUE, "hatanaka", TRUE>>
          [] OTHER ->
        CASE HasSuffix(n, <<".", "g", "z">>)
                -> IF HasInside(n, <<".", "c", "r", "x", ".", "g", "z">>)
                      \/ HasSuffixNNd(n, <<".", "g", "z">>)
                   THEN <<TRUE, "hatanaka+gz", TRUE>>
                   ELSE <<TRUE, "gzip", FALSE>>
          [] OTHER ->
        CASE HasSuffix(n, <<".", "z">>) -> <<TRUE, "compress", TRUE>>
          [] OTHER ->
        CASE HasSuffix(n, <<".", "b", "z", "2">>) -> <<TRUE, "bzip2", TRUE>>
          [] OTHER ->
        CASE HasSuffix(n, <<".", "z", "i", "p">>) -> <<TRUE, "zip", TRUE>>
          [] OTHER -> <<FALSE, "none", FALSE>>

Triple(type) == <<type.is_compressed, type.comp_type, type.needs_hatanaka>>

\* C4: detect_file_type returns, for every file name, the classification of
\* the first rule that matches the name with capitals folded; the five named
\* files are classified as listed, and no external decoder is needed exactly
\* for the kinds none and gzip.
C4_DetectFileTypeFollowsRules ==
    pc = "classified" =>
        /\ Triple(detected) = Classification(filepath)
        /\ filepath = Site24o => Triple(detected) = <<FALSE, "none", FALSE>>
        /\ filepath = Site24d => Triple(detected) = <<TRUE, "hatanaka", TRUE>>
        /\ filepath = SiteCrxGz => Triple(detected) = <<TRUE, "hatanaka+gz", TRUE>>
        /\ filepath = SiteRnxGz => Triple(detected) = <<TRUE, "gzip", FALSE>>
        /\ filepath = SiteZ => Triple(detected) = <<TRUE, "compress", TRUE>>
        /\ ~detected.needs_hatanaka <=> detected.comp_type \in {"none", "gzip"}

\* C4 witness: a name in capitals that only the second rule's inner test
\* classifies has been classified
C4_Witness ==
    /\ pc = "classified"
    /\ filepath = <<"s", "i", "t", "e", ".", "9", "9", "D", ".", "G", "z">>
    /\ Triple(detected) = <<TRUE, "hatanaka+gz", TRUE>>

-----------------------------------------------------------------------------
(* Interval statistics: epochs at various distances *)

MaxIntervalEpochs == 3

\* Epochs 0, 1, 2, 150, 301, 3601 and 7201 seconds after midnight
IntervalAlphabet ==
    {GoodV3("00", "00", "0.0000000"), GoodV3("00", "00", "1.0000000"),
     GoodV3("00", "00", "2.0000000"), GoodV3("00", "02", "30.0000000"),
     GoodV3("00", "05", "1.0000000"), GoodV3("01", "00", "1.0000000"),
     GoodV3("02", "00", "1.0000000")}

\* Eleven epochs: one delta of 7200 s, then nine deltas of 1 s
OutlierFile ==
    <<EndOfHeaderLine, GoodV3("00", "00", "1.0000000")>>
        \o [k \in 1..10 |-> GoodV3("02", "00", Numeral(k))]

IntervalFiles ==
    {<<EndOfHeaderLine>> \o body :
        body \in SeqsUpTo(IntervalAlphabet, MaxIntervalEpochs)}
    \cup {<<MarkerNameLine, EndOfHeaderLine>>, OutlierFile}

InitInterval == \E ls \in IntervalFiles : ParseInit(ls)

SpecInterval == InitInterval /\ [][NextParse]_vars

\* A delta of 0.001 s to 3600 s
Plausible(d) == 1000 * d >= 1 /\ d <= 3600

\* The plausible deltas of the captured timestamps, in order
Kept == SelectSeq(Deltas(obs_data.epoch_times), Plausible)

\* v thousandths is the mean of the kept deltas to three decimals
IsMeanOfKept(v) ==
    LET err == v * Len(Kept) - 1000 * SeqSum(Kept)
    IN  2 * err <= Len(Kept) /\ 2 * err >= 0 - Len(Kept)

\* C5: when parse_observation_data has returned, there is no summary if
\* fewer than 2 timestamps were captured or no delta is plausible; otherwise
\* mean, minimum and maximum are those of the plausible deltas alone. The file
\* with one delta of 7200 s and nine of 1 s gives "1.000", consistent.
C5_StatisticsOverPlausibleDeltas ==
    pc = "display" =>
        /\ (Len(obs_data.epoch_times) < 2 \/ Kept = <<>>)
              => /\ obs_data.calculated_interval = <<>>
                 /\ obs_data.interval_consistent = "absent"
        /\ (Len(obs_data.epoch_times) >= 2 /\ Kept # <<>>)
              => /\ obs_data.calculated_interval # <<>>
                 /\ IsMeanOfKept(obs_data.calculated_interval[1])
                 /\ Len(obs_data.calculated_interval) > 1
                      => /\ obs_data.calculated_interval[2] = 1000 * SeqMin(Kept)
                         /\ obs_data.calculated_interval[3] = 1000 * SeqMax(Kept)
        /\ lines = OutlierFile
              => /\ obs_data.calculated_interval = <<1000>>
                 /\ obs_data.interval_consistent = "True"

\* C5 witness: the file with the 7200 s outlier has been summarised from its
\* nine deltas of 1 s
C5_Witness ==
    /\ pc = "display"
    /\ lines = OutlierFile
    /\ Len(obs_data.epoch_times) = 11
    /\ Kept = <<1, 1, 1, 1, 1, 1, 1, 1, 1>>
    /\ obs_data.calculated_interval = <<1000>>

\* C6: a summary is flagged consistent exactly when max - min < 0.01 * mean
\* over the kept deltas; a consistent summary is the mean alone, an
\* inconsistent one is the mean with the minimum and the maximum, each to
\* three decimals.
C6_ConsistencyFlagAndText ==
    (pc = "display" /\ obs_data.calculated_interval # <<>>) =>
        /\ obs_data.interval_consistent \in {"True", "False"}
        /\ obs_data.interval_consistent = "True"
              <=> 100 * Len(Kept) * (SeqMax(Kept) - SeqMin(Kept)) < SeqSum(Kept)
        /\ IsMeanOfKept(obs_data.calculated_interval[1])
        /\ obs_data.interval_consistent = "True"
              => Len(obs_data.calculated_interval) = 1
        /\ obs_data.interval_consistent = "False"
              => /\ Len(obs_data.calculated_interval) = 3
                 /\ obs_data.calculated_interval[2] = 1000 * SeqMin(Kept)
                 /\ obs_data.calculated_interval[3] = 1000 * SeqMax(Kept)

\* C6 witness: a summary flagged consistent although the whole-second deltas
\* differ (150 s and 151 s, mean 150.500)
C6_Witness ==
    /\ pc = "display"
    /\ obs_data.interval_consistent = "True"
    /\ SeqMax(Kept) # SeqMin(Kept)
    /\ obs_data.calculated_interval = <<150500>>

-----------------------------------------------------------------------------
(* Long files: more epochs than the list of timestamps takes *)

MaxExtraEpochs == 2

\* The epoch line of second k after midnight; every seventh is a v2.x line
EpochAt(k, v2_every) ==
    IF v2_every > 0 /\ k % v2_every = 0
    THEN EpochV2(<<"2", "4">>, "1", "1", "0", Numeral(k \div 60),
                 Numeral(k % 60))
    ELSE GoodV3("00", Numeral(k \div 60), Numeral(k % 60))

\* A header, then epochs 1..n with a malformed '>' line before epoch
\* malformed_at (none when 0)
LongFile(n, malformed_at, v2_every) ==
    <<MarkerNameLine, EndOfHeaderLine>>
        \o [k \in 1..(malformed_at - 1) |-> EpochAt(k, v2_every)]
        \o (IF malformed_at > 0 THEN <<BadDateV3>> ELSE <<>>)
        \o [k \in 1..(n - (IF malformed_at > 0 THEN malformed_at - 1 ELSE 0))
              |-> EpochAt(k + (IF malformed_at > 0 THEN malformed_at - 1 ELSE 0),
                          v2_every)]

\* Files in which no epoch header parses
UnparsedFiles ==
    {<<EndOfHeaderLine>>,
     <<EndOfHeaderLine, BadDateV3, SatLine(<<"G", "0", "1">>), ShortV3>>,
     <<EndOfHeaderLine, BadDateV2, NonNumericV2>>}

LongFiles ==
    {LongFile(n, malformed_at, v2_every) :
        n \in (MaxEpochTimes - 1)..(MaxEpochTimes + MaxExtraEpochs),
        malformed_at \in {0, 1, 50, MaxEpochTimes},
        v2_every \in {0, 7}}
    \cup UnparsedFiles

InitLong == \E ls \in LongFiles : ParseInit(ls)

SpecLong == InitLong /\ [][NextParse]_vars

\* The timestamp of a line whose epoch parses
TimeOfLine(k) == IF ParsedV3(k) THEN V3Time(lines[k]) ELSE V2Time(lines[k])

\* The timestamps of the parsed epoch headers among lines header_end+1..k, in
\* file order
ParsedTimes(k) ==
    LET IsParsed(j) == j > header_end /\ (ParsedV3(j) \/ ParsedV2(j))
        parsed == SelectSeq([j \in 1..k |-> j], IsParsed)
    IN  [i \in 1..Len(parsed) |-> TimeOfLine(parsed[i])]

\* C8: at every point of the body scan epoch_times holds at most 100
\* timestamps: those of the first 100 parsed epoch headers (of all of them
\* while there are fewer), in file order.
C8_FirstHundredTimestamps ==
    pc \in {"body", "display"} =>
        LET parsed == ParsedTimes(body_idx)
        IN  /\ Len(obs_data.epoch_times) <= 100
            /\ obs_data.epoch_times =
                  SubSeq(parsed, 1, IF Len(parsed) < 100 THEN Len(parsed) ELSE 100)

\* The first and the last line whose epoch header parsed
FirstParsed == CHOOSE k \in ParsedEpochs : \A j \in ParsedEpochs : k <= j

LastParsed == CHOOSE k \in ParsedEpochs : \A j \in ParsedEpochs : k >= j

\* The seconds from t1 to t2
SecondsBetween(t1, t2) ==
    86400 * (ToOrdinal(t2) - ToOrdinal(t1))
        + 3600 * (t2.hour - t1.hour) + 60 * (t2.minute - t1.minute)
        + (t2.second - t1.second)

\* C15: when parse_observation_data has returned and some epoch header
\* parsed, actual_start is the time of the first parsed epoch header of the
\* file, actual_end that of the last one (the 100-timestamp cap does not hold
\* it back), num_epochs is the epoch count and duration_seconds the seconds
\* from start to end; when no epoch header parsed, start and end are none and
\* duration_seconds and num_epochs are 0.
C15_StartEndDuration ==
    pc = "display" =>
        IF ParsedEpochs # {}
        THEN /\ obs_data.actual_start = Strftime(TimeOfLine(FirstParsed))
             /\ obs_data.actual_end = Strftime(TimeOfLine(LastParsed))
             /\ obs_data.num_epochs = epoch_count
             /\ obs_data.num_epochs >= 1
             /\ obs_data.duration_seconds =
                   SecondsBetween(TimeOfLine(FirstParsed), TimeOfLine(LastParsed))
        ELSE /\ obs_data.actual_start = NoText
             /\ obs_data.actual_end = NoText
             /\ obs_data.duration_seconds = 0
             /\ obs_data.num_epochs = 0

\* C15 witness: 102 epoch headers parsed, one second apart, and the duration
\* runs to the last of them
C15_Witness ==
    /\ pc = "display"
    /\ Cardinality(ParsedEpochs) = MaxEpochTimes + 2
    /\ obs_data.duration_seconds = MaxEpochTimes + 1
    /\ Len(obs_data.epoch_times) = MaxEpochTimes

\* C8 witness: more than 100 epoch headers have parsed and the list holds 100
C8_Witness ==
    /\ pc = "body"
    /\ Cardinality(ParsedEpochs) > 100
    /\ Len(obs_data.epoch_times) = 100

-----------------------------------------------------------------------------
(* The application: files are selected one after another *)

\* "d/site.24o"
DirSite24o == <<"d", "/">> \o Site24o

Paths == {Site24o, Site24d, SiteCrxGz, SiteRnxGz, SiteZ, DirSite24o}

\* A v3.x observation file
V3File ==
    <<MarkerNameLine, SysR2, IntervalLine, EndOfHeaderLine,
      GoodV3("00", "00", "0.0000000"), SatLine(<<"G", "0", "1">>),
      GoodV3("00", "00", "30.0000000"), SatLine(<<"R", "0", "2">>)>>

\* A v2.x observation file
V2File == <<V2Types, EndOfHeaderLine, GoodV2, ValuesLine>>

\* A file that is not RINEX
OtherFile == <<TwoCharLine>>

Contents == {V3File, V2File, OtherFile}

Sources == {Source(TRUE, <<>>)} \cup {Source(FALSE, ls) : ls \in Contents}

Init ==
    /\ pc = "idle"
    /\ HATANAKA_AVAILABLE \in BOOLEAN
    /\ filepath = <<>>
    /\ fileSource = NoSource
    /\ file_label = <<>>
    /\ results_text = EmptyPanel
    /\ messagebox = "none"
    /\ detected = NoFileType
    /\ lines = <<>>
    /\ idx = 0
    /\ body_idx = 0
    /\ header_data = InitialHeaderData
    /\ header_end = 0
    /\ in_epoch = FALSE
    /\ first_epoch_time = NoTime
    /\ last_epoch_time = NoTime
    /\ epoch_count = 0
    /\ obs_data = InitialObsData

SelectAnyFile == \E path \in Paths, source \in Sources : SelectFile(path, source)

Next == SelectAnyFile \/ DecompressFile \/ Parse \/ DisplayResults

Spec == Init /\ [][Next]_vars

DecompressionDialogs == {"Missing Library", "Decompression Error"}

\* decompress_file is about to fail on the selected file: it is compressed
\* and its decoder is missing or raises
DecompressionFails ==
    /\ pc = "decompress"
    /\ DetectFileType(filepath).is_compressed
    /\ \/ DetectFileType(filepath).needs_hatanaka /\ ~HATANAKA_AVAILABLE
       \/ fileSource.raises

\* C9: when decompression fails the error is reported and the file is
\* dropped: the call ends without a step of parse_rinex_header,
\* parse_observation_data or display_results, and the panel keeps what it
\* showed.
C9_FailedDecompressionAborts ==
    [][/\ DecompressionFails
            => /\ messagebox' \in DecompressionDialogs
               /\ pc' = "idle"
               /\ results_text' = results_text
       /\ messagebox' \in DecompressionDialogs
            => pc' = "idle" /\ lines' = <<>>]_vars

\* C9 witness: the gzip decoder raised on the second file selected, and the
\* report of the first is still what the panel shows
C9_Witness ==
    /\ pc = "idle"
    /\ messagebox = "Decompression Error"
    /\ filepath = SiteRnxGz
    /\ results_text.kind = "report"

-----------------------------------------------------------------------------
(* The report as a function of the file alone *)

\* parse_rinex_header(ls) from its kth line on, as one evaluation
RECURSIVE HeaderFrom(_, _, _)
HeaderFrom(ls, k, data) ==
    IF k > Len(ls) THEN DropLastObsSystem(data)
    ELSE IF IsSkippedHeaderLine(ls[k]) THEN HeaderFrom(ls, k + 1, data)
    ELSE IF IsHeaderTerminator(ls[k]) THEN DropLastObsSystem(data)
    ELSE HeaderFrom(ls, k + 1, HeaderField(data, ls[k]))

\* parse_observation_data(ls) from its kth line on, as one evaluation
RECURSIVE BodyFrom(_, _, _)
BodyFrom(ls, k, st) ==
    IF k > Len(ls) THEN IntervalSummary(Duration(st))
    ELSE BodyFrom(ls, k + 1, BodyLine(st, ls[k]))

\* The report of one run of the pipeline on ls and path, started from nothing
PipelineReport(ls, path, hatanaka) ==
    Report(HeaderFrom(ls, 1, InitialHeaderData),
           BodyFrom(ls, FindHeaderEnd(ls) + 1,
                    ScanState(FALSE, NoTime, NoTime, 0, InitialObsData)),
           path, hatanaka)

\* C12: the report of a run is a function of the lines and the path alone,
\* so two runs on the same lines and path give the same text: whatever was
\* selected, parsed or displayed before, the data handed to display_results
\* and the text left in the panel are those of one run started from nothing,
\* with the constellation names in sorted order.
C12_ReportIsFunctionOfInput ==
    /\ pc = "display"
         => Report(header_data, obs_data, filepath, HATANAKA_AVAILABLE)
              = PipelineReport(fileSource.lines, filepath, HATANAKA_AVAILABLE)
    /\ pc = "idle" /\ messagebox = "none" /\ filepath # <<>>
         => results_text
              = ReportPanel(PipelineReport(fileSource.lines, filepath,
                                           HATANAKA_AVAILABLE))

\* C12 witness: a run on the v3.x file is about to display the very report
\* the panel already shows from an earlier run
C12_Witness ==
    /\ pc = "display"
    /\ fileSource.lines = V3File
    /\ filepath = Site24o
    /\ results_text =
          ReportPanel(Report(header_data, obs_data, filepath,
                             HATANAKA_AVAILABLE))
    /\ Len(results_text.body.observed) = 2

-----------------------------------------------------------------------------
(* The header interval against the calculated one *)

MaxCrossEpochs == 2

\* "    t                                                       INTERVAL"
IntervalHeader(t) == HeaderLine(Blank3, <<t>>, <<"INTERVAL">>)

\* An INTERVAL record whose columns are blank
BlankInterval == HeaderLine(Blank3, <<>>, <<"INTERVAL">>)

\* "30.000 s                                                    INTERVAL"
WordyInterval == HeaderLine(Blank3, <<"30.000", "s">>, <<"INTERVAL">>)

CrossHeaders ==
    {<<>>, <<BlankInterval>>, <<WordyInterval>>}
    \cup {<<IntervalHeader(t)>> : t \in {"30.000", "1.000", "1.011", "15.000"}}

CrossEpochs ==
    {GoodV3("00", "00", "0.0000000"), GoodV3("00", "00", "1.0000000"),
     GoodV3("00", "00", "2.0000000"), GoodV3("00", "00", "30.0000000")}

CrossFiles ==
    {header \o <<EndOfHeaderLine>> \o body :
        header \in CrossHeaders, body \in SeqsUpTo(CrossEpochs, MaxCrossEpochs)}

InitCross == \E ls \in CrossFiles : ParseInit(ls)

SpecCross == InitCross /\ [][NextParse]_vars

\* The header declares an interval: the INTERVAL record holds some text
HeaderDeclaresInterval ==
    header_data.interval # Unknown /\ header_data.interval # <<>>

\* The header declares a number as its interval
HeaderDeclaresNumber ==
    /\ HeaderDeclaresInterval
    /\ Len(header_data.interval) = 1
    /\ header_data.interval[1] \in DOMAIN IntervalTokens

\* The two intervals, in thousandths of a second, differ by more than 1% of
\* the header's
DifferByMoreThanOnePercent ==
    LET h == IntervalTokens[header_data.interval[1]]
        c == obs_data.calculated_interval[1]
    IN  100 * (IF h >= c THEN h - c ELSE c - h) > h

\* C13: in the report about to be written, the mismatch warning is there
\* exactly when the header declares an interval, one was calculated and the
\* two differ by more than 1%; the "no interval found" note is there exactly
\* when the header declares none and none was calculated; never both.
C13_WarningAndNoteExactly ==
    pc = "display" =>
        LET report == Report(header_data, obs_data, filepath,
                             HATANAKA_AVAILABLE)
            calculated == obs_data.calculated_interval # <<>>
        IN  /\ report.mismatch_warning
                <=> /\ HeaderDeclaresNumber
                    /\ calculated
                    /\ DifferByMoreThanOnePercent
            /\ report.no_interval_note
                <=> ~HeaderDeclaresInterval /\ ~calculated
            /\ ~(report.mismatch_warning /\ report.no_interval_note)

-----------------------------------------------------------------------------
(* v2.x epoch lines *)

MaxV2Lines == 3

\* The two-digit years of the files, as columns 1-2 hold them
V2YearColumns ==
    {<<"0", "0">>, <<"2", "4">>, <<"7", "9">>, <<"8", "0">>, <<"9", "9">>,
     <<" ", "5">>}

\* " yy  1  1  0  0 ss": an epoch line of 1 January of year yy
V2At(yy, ss) == EpochV2(yy, "1", "1", "0", "0", ss)

\* The lines of a file of year yy: two epochs, an epoch line cut to 29
\* characters, one of 31 February, a line of values starting with a digit,
\* a line with a letter in column 1 and a satellite line
V2Alphabet(yy) ==
    {V2At(yy, "0.0000000"), V2At(yy, "30.0000000"),
     [V2At(yy, "0.0000000") EXCEPT !.len = 29],
     EpochV2(yy, "2", "31", "0", "0", "0.0000000"),
     NonNumericV2,
     EpochV2(<<"G", "1">>, "1", "1", "0", "0", "0.0000000"),
     SatLine(<<"G", "0", "1">>)}

V2Files ==
    {<<EndOfHeaderLine>> \o body :
        body \in UNION {SeqsUpTo(V2Alphabet(yy), MaxV2Lines) : yy \in V2YearColumns}}
    \cup {<<MarkerNameLine, EndOfHeaderLine>>,
          LongFile(MaxEpochTimes + 1, 0, 1)}

InitV2 == \E ls \in V2Files : ParseInit(ls)

SpecV2 == InitV2 /\ [][NextParse]_vars

\* Longer than 29 characters, a space first, two digits in columns 1-2
TwoDigitShape(line) ==
    /\ line.len > 29
    /\ line.head[1] = " "
    /\ line.head[2] \in Digits
    /\ line.head[3] \in Digits

\* Longer than 29 characters, a space first, and columns 1-2 hold one or two
\* digits and nothing but blanks besides
TrimmedDigitShape(line) ==
    LET yy == Strip(SubSeq(line.head, 2, 3))
    IN  /\ line.len > 29
        /\ line.head[1] = " "
        /\ yy # <<>>
        /\ \A k \in 1..Len(yy) : yy[k] \in Digits

\* 1900 + yy for 80..99, 2000 + yy for 0..79
CenturyYear(yy) == IF yy \in 80..99 THEN 1900 + yy ELSE 2000 + yy

\* The bookkeeping of a parsed epoch of time t
EpochBookkeeping(t) ==
    /\ in_epoch'
    /\ epoch_count' = epoch_count + 1
    /\ obs_data'.epoch_times =
          IF Len(obs_data.epoch_times) < 100
          THEN Append(obs_data.epoch_times, t)
          ELSE obs_data.epoch_times
    /\ first_epoch_time' = IF first_epoch_time = NoTime THEN t ELSE first_epoch_time
    /\ last_epoch_time' = t

\* A step of the body loop on a line that is not a '>' line does the
\* bookkeeping of an epoch, with the year of the century rule, when the line
\* has the shape and its date and time parse, and no bookkeeping otherwise
V2StepFollows(Shape(_)) ==
    pc = "body" /\ body_idx < Len(lines) /\ ~StartsWithGT(lines[body_idx + 1])
        => LET line == lines[body_idx + 1]
               yy == IntOfDigits(Strip(SubSeq(line.head, 2, 3)))
           IN  IF Shape(line) /\ V2Parses(line)
               THEN EpochBookkeeping(
                        DateTime(CenturyYear(yy), IntOf(line.cols[1]),
                                 IntOf(line.cols[2]), IntOf(line.cols[3]),
                                 IntOf(line.cols[4]), TruncOf(line.cols[5])))
               ELSE /\ UNCHANGED <<in_epoch, epoch_count, first_epoch_time,
                                   last_epoch_time>>
                    /\ obs_data'.epoch_times = obs_data.epoch_times

\* C17 as stated: a body line is handled as a v2.x epoch header only if it is
\* longer than 29 characters, starts with a space and has digits in columns
\* 1-2; then, and only when its date and time parse, the scanner enters
\* in-epoch, counts the epoch, appends its time while fewer than 100 are
\* held and updates first and last, with year 1900+yy for 80..99 and 2000+yy
\* for 0..79.
C17_TwoDigitYearLines == [][V2StepFollows(TwoDigitShape)]_vars

\* C17 amended: the same, for a line whose columns 1-2 hold one or two digits
\* once blanks are trimmed, so that a year written " 5" counts as 2005.
C17_TrimmedYearLines == [][V2StepFollows(TrimmedDigitShape)]_vars

\* C17 witness: two epoch lines of year " 5" have been handled, as 2005
C17_Witness ==
    /\ pc = "body"
    /\ body_idx = header_end + 2
    /\ lines[body_idx].head = <<" ", " ", "5">>
    /\ in_epoch
    /\ epoch_count = 2
    /\ first_epoch_time.year = 2005
    /\ last_epoch_time # first_epoch_time
    /\ Len(obs_data.epoch_times) = 2

-----------------------------------------------------------------------------
(* The panel and the file label *)

\* C18: whenever the application is idle after a selection, the panel holds
\* the report of the run on the file the label names, or an error text about
\* that file (or nothing at all); a failed selection does not leave the
\* report of an earlier file under the new name.
C18_PanelIsAboutLabelledFile ==
    pc = "idle" /\ filepath # <<>>
        => \/ /\ results_text.kind = "report"
              /\ messagebox = "none"
              /\ results_text.body.file = file_label
           \/ /\ results_text.kind = "error"
              /\ results_text.about = filepath
              /\ file_label = Basename(filepath)
           \/ results_text = EmptyPanel

=============================================================================
